---- MODULE Spec2Model ----
(***************************************************************************)
(* Model of packages/db-vercel-postgres/src/connect.ts: the top-level      *)
(* connect operation of the Vercel Postgres adapter and the                *)
(* connectWithReconnect helper with its 'error' listener and its           *)
(* one-second retry timer.                                                  *)
(*                                                                         *)
(* JavaScript runs one task at a time, so an action of the model is the    *)
(* synchronous code that runs between two suspension points: from the      *)
(* settlement of an awaited promise (or an event, or a timer) up to the     *)
(* next await.  Strings are sequences of words, so that String.includes    *)
(* and the regular expression of the catch block are computed, not assumed.*)
(***************************************************************************)
EXTENDS Naturals, Sequences, FiniteSets, Bags, TLC

VARIABLES
  adapter,    \* the VercelPostgresAdapter: configuration and the slots connect writes
  env,        \* process.env
  calls,      \* the invocations of connect of the latest top-level call, recursive
              \* ones included; earlier calls have settled and left their effects
  clients,    \* the pool handles constructed so far: the connection objects each
              \* has returned, its connect attempts in flight, its retry timers
  logger,     \* payload.logger: a bag of entries
  process,    \* process.exit
  history     \* counts of the events of the reconnect path

vars == <<adapter, env, calls, clients, logger, process, history>>

\* ---------------------------------------------------------------- bounds

MaxCalls == 2       \* invocations of connect, recursive ones included
MaxErrors == 1      \* 'error' events delivered to listeners
MaxFailures == 2    \* failed connect attempts of the reconnect path

\* ---------------------------------------------------------------- strings

\* String.prototype.toLowerCase / toUpperCase on the words the model uses.
Lower(w) ==
  CASE w = "DATABASE" -> "database"
    [] w = "Database" -> "database"
    [] w = "Does" -> "does"
    [] w = "Connection" -> "connection"
    [] OTHER -> w

Capitalize(w) ==
  CASE w = "database" -> "Database"
    [] w = "connect" -> "Connect"
    [] OTHER -> w

\* s.includes(pat): pat occurs in s as a contiguous run (case-sensitive).
Includes(s, pat) ==
  \E i \in 1..(Len(s) + 1) :
    /\ i + Len(pat) - 1 <= Len(s)
    /\ SubSeq(s, i, i + Len(pat) - 1) = pat

LowerAll(s) == [i \in 1..Len(s) |-> Lower(s[i])]

\* s.match(/database .* does not exist/i): the word "database", then at
\* least one more word (the two blanks of the pattern are distinct
\* characters), then "does not exist", in any case.
MatchesMissingDatabase(s) ==
  LET l == LowerAll(s) IN
  \E i \in 1..Len(l) : \E j \in (i + 2)..Len(l) :
    /\ l[i] = "database"
    /\ j + 2 <= Len(l)
    /\ SubSeq(l, j, j + 2) = <<"does", "not", "exist">>

\* ---------------------------------------------------------------- errors

NoErr == [nullish |-> TRUE, code |-> "undefined", hasMessage |-> FALSE, message |-> <<>>]

Err(code, msg) == [nullish |-> FALSE, code |-> code, hasMessage |-> TRUE, message |-> msg]

ErrNoMessage(code) == [nullish |-> FALSE, code |-> code, hasMessage |-> FALSE, message |-> <<>>]

\* `${err.message}`
MessageText(err) == IF err.hasMessage THEN err.message ELSE <<"undefined">>

\* ---------------------------------------------------------------- configuration

\* A connection string is a sequence of words <<scheme, host, path>>; the
\* empty string is <<>>; undefined has defined = FALSE.
Undefined == [defined |-> FALSE, text |-> <<>>]

Str(text) == [defined |-> TRUE, text |-> text]

\* JavaScript truthiness of a string-or-undefined value.
Truthy(cs) == cs.defined /\ cs.text # <<>>

\* new URL(text) throws a TypeError unless the text starts with a scheme.
ValidUrl(text) == Len(text) >= 2 /\ text[1] \in {"postgres://", "postgresql://"}

\* new URL(text).hostname: postgres: and postgresql: are not special schemes
\* of the URL standard, so the host is opaque and is returned as written.
Hostname(text) == text[2]

NoPoolOptions == [present |-> FALSE, connectionString |-> Undefined]

PoolOptions(cs) == [present |-> TRUE, connectionString |-> cs]

LocalUrl == Str(<<"postgres://", "localhost", "/payload">>)
RemoteUrl == Str(<<"postgres://", "db.example.com", "/payload">>)
GarbageUrl == Str(<<"not-a-url">>)
LoopbackUrl == Str(<<"postgresql://", "127.0.0.1", "/payload">>)
UpperLocalUrl == Str(<<"postgres://", "LOCALHOST", "/payload">>)
Ipv6LoopbackUrl == Str(<<"postgres://", "[::1]", "/payload">>)
EmptyString == Str(<<>>)

\* The values of poolOptions.connectionString and of POSTGRES_URL.
ConnectionStrings ==
  {Undefined, EmptyString, LocalUrl, LoopbackUrl, UpperLocalUrl, RemoteUrl,
   Ipv6LoopbackUrl, GarbageUrl}

\* The backend configurations the lifecycle specification starts from.
BackendConfigs ==
  { [poolOptions |-> PoolOptions(LocalUrl), url |-> Undefined, force |-> FALSE],
    [poolOptions |-> NoPoolOptions, url |-> RemoteUrl, force |-> FALSE],
    [poolOptions |-> NoPoolOptions, url |-> GarbageUrl, force |-> FALSE] }

\* this.poolOptions?.connectionString ?? process.env.POSTGRES_URL
ConnectionStringOf(a, e) ==
  IF a.poolOptions.present /\ a.poolOptions.connectionString.defined
  THEN a.poolOptions.connectionString
  ELSE e.POSTGRES_URL

\* The hosted client: a VercelPool over the pool options, or the default sql.
HostedClient(a) == IF a.poolOptions.present THEN "VercelPool" ELSE "sql"

\* A selection that tests the host before the force flag.
SelectClientHostFirst(a, e) ==
  LET cs == ConnectionStringOf(a, e) IN
  IF Truthy(cs) /\ ValidUrl(cs.text) /\ Hostname(cs.text) \in {"127.0.0.1", "localhost"}
  THEN "pg.Pool"
  ELSE HostedClient(a)

\* The client connect constructs, or "TypeError" when new URL throws.
SelectClient(a, e) ==
  LET cs == ConnectionStringOf(a, e) IN
  IF ~a.forceUseVercelPostgres /\ Truthy(cs)
  THEN IF ~ValidUrl(cs.text) THEN "TypeError"
       ELSE IF Hostname(cs.text) \in {"127.0.0.1", "localhost"} THEN "pg.Pool"
       ELSE HostedClient(a)
  ELSE HostedClient(a)

InvalidUrlError == Err("ERR_INVALID_URL", <<"Invalid", "URL">>)

\* ---------------------------------------------------------------- inputs

\* What client.connect() and the awaited collaborators reject with.
MissingDb == Err("3D000", <<"database", "payload", "does", "not", "exist">>)
MissingDbUpper == Err("3D000", <<"DATABASE", "payload", "does", "not", "exist">>)
UnnamedDb == Err("3D000", <<"database", "does", "not", "exist">>)
Refused == Err("ECONNREFUSED", <<"connect", "ECONNREFUSED">>)
Bare == ErrNoMessage("undefined")

ConnectErrors == {MissingDbUpper, UnnamedDb, Bare}

\* What a connection's 'error' event carries.
Reset == ErrNoMessage("ECONNRESET")
Unexpected == Err("undefined", <<"Connection", "terminated", "unexpectedly">>)
Terminated == Err("undefined", <<"the", "connection", "terminated">>)
ResetAndBoth ==
  Err("ECONNRESET", <<"Connection", "terminated", "unexpectedly", "connection", "terminated">>)
CapitalTerminated == Err("undefined", <<"Connection", "terminated">>)
Timeout == Err("ETIMEDOUT", <<"timeout", "expired">>)

\* The errors with code ECONNRESET, or a message containing "Connection
\* terminated unexpectedly" or "connection terminated"; and the others.
TriggerClass == {Reset, Unexpected, Terminated, ResetAndBoth}

OtherClass == {CapitalTerminated, Timeout, Bare, NoErr}

ListenerErrors == TriggerClass \cup OtherClass

\* ---------------------------------------------------------------- state

\* The state the handlers read and write, as one record.
Cur ==
  [adapter |-> adapter, calls |-> calls, clients |-> clients,
   logger |-> logger, process |-> process]

Commit(s) ==
  /\ adapter' = s.adapter
  /\ calls' = s.calls
  /\ clients' = s.clients
  /\ logger' = s.logger
  /\ process' = s.process

Log(s, level, msg, err) ==
  [s EXCEPT !.logger = @ (+) SetToBag({[level |-> level, msg |-> msg, err |-> err]})]

\* One more event in the history of invocation i.
Did(s, i, op) == [s EXCEPT !.calls[i].trace = Append(@, op)]

At(s, i, pc) == [s EXCEPT !.calls[i].pc = pc]

Running == ~process.exited

\* The invocation connect i awaits at "this.connect", or 0.
ChildOf(cs, i) ==
  IF \E j \in 1..Len(cs) : cs[j].parent = i
  THEN CHOOSE j \in 1..Len(cs) : cs[j].parent = i
  ELSE 0

Settled(pc) == pc \in {"returned", "threw", "exited"}

\* ---------------------------------------------------------------- connect

\* A terminal failure that exits without rejectInitializing.
TerminalFailureNoReject(s, i) ==
  [At(Did(s, i, "process.exit"), i, "exited") EXCEPT !.process = [exited |-> TRUE, status |-> 1]]

\* connect.ts 127-130: rejectInitializing when it is a function, then exit(1).
TerminalFailure(s, i) ==
  LET s1 == IF s.adapter.hasRejectInitializing THEN Did(s, i, "rejectInitializing") ELSE s
      s2 == Did(s1, i, "process.exit")
  IN [At(s2, i, "exited") EXCEPT !.process = [exited |-> TRUE, status |-> 1]]

\* A test that ignores disableCreateDatabase.
WantsCreateDatabaseAlways(a, err) ==
  err.hasMessage /\ MatchesMissingDatabase(err.message)

\* connect.ts 109: the test of the catch block.
WantsCreateDatabase(a, err) ==
  /\ err.hasMessage
  /\ MatchesMissingDatabase(err.message)
  /\ ~a.disableCreateDatabase

\* connect.ts 108-131, up to the await of createDatabase or to process.exit.
HandleFailure(s, i, err) ==
  LET s0 == [s EXCEPT !.calls[i].caught = Append(@, err)] IN
  IF WantsCreateDatabase(s0.adapter, err)
  THEN LET msg == <<Capitalize(Head(err.message))>> \o Tail(err.message) \o <<", creating...">>
           s1 == Log(s0, "info", msg, NoErr)
       IN At(Did(s1, i, "createDatabase"), i, "createDatabase")
  ELSE LET msg == <<"Error: cannot connect to Postgres. Details:">> \o MessageText(err)
       IN TerminalFailure(Log(s0, "error", msg, err), i)

\* connect.ts 60-91: a new invocation, up to the await of client.connect().
StartConnect(s, parent, hotReload) ==
  LET i == Len(s.calls) + 1
      f == [parent |-> parent, hotReload |-> hotReload, pc |-> "entered",
            client |-> 0, caught |-> <<>>, trace |-> <<>>, migrations |-> "none"]
      s1 == [s EXCEPT !.calls = Append(@, f), !.adapter.schema = "assembled"]
      kind == SelectClient(s.adapter, env)
  IN IF kind = "TypeError"
     THEN HandleFailure(s1, i, InvalidUrlError)
     ELSE LET k == Len(s.clients) + 1
              s2 == [s1 EXCEPT !.clients = Append(@, [kind |-> kind, conns |-> <<>>, pending |-> 0, timers |-> <<>>]),
                               !.calls[i].client = k]
          IN At(s2, i, "client.connect")

\* connect.ts 133: createExtensions is called.
AfterTry(s, i) == At(Did(s, i, "createExtensions"), i, "createExtensions")

\* A drop that ignores hotReload.
WantsDropOnReload(hotReload, e) == e.PAYLOAD_DROP_DATABASE = "true"

\* connect.ts 101-102: whether dropDatabase runs.
WantsDrop(hotReload, e) == ~hotReload /\ e.PAYLOAD_DROP_DATABASE = "true"

\* connect.ts 103: this.schemaName || 'public'
SchemaLabel(a) == IF a.schemaName = "undefined" THEN "public" ELSE a.schemaName

\* A connect that attaches no listener in the non-reconnect path.
ConnectedWithoutListener(s, i) ==
  LET k == s.calls[i].client
      s1 == [s EXCEPT !.clients[k].conns = Append(@, [listener |-> FALSE, reconnect |-> FALSE])]
      s3 == Did([Did(s1, i, "connected") EXCEPT !.adapter.drizzle = k], i, "drizzle")
  IN IF WantsDrop(s.calls[i].hotReload, env)
     THEN LET s4 == Log(s3, "info", <<"---- DROPPING TABLES SCHEMA(", SchemaLabel(s.adapter), ") ----">>, NoErr)
          IN At(Did(s4, i, "dropDatabase"), i, "dropDatabase")
     ELSE AfterTry(s3, i)

\* connect.ts 35-51 and 95-107: client.connect() of the non-reconnect path
\* resolved; the listener is attached, drizzle is bound, tables are dropped.
Connected(s, i) ==
  LET k == s.calls[i].client
      s1 == [s EXCEPT !.clients[k].conns = Append(@, [listener |-> TRUE, reconnect |-> FALSE])]
      s2 == Did(s1, i, "connected")
      s3 == Did([s2 EXCEPT !.adapter.drizzle = k], i, "drizzle")
  IN IF WantsDrop(s.calls[i].hotReload, env)
     THEN LET s4 == Log(s3, "info", <<"---- DROPPING TABLES SCHEMA(", SchemaLabel(s.adapter), ") ----">>, NoErr)
          IN At(Did(s4, i, "dropDatabase"), i, "dropDatabase")
     ELSE AfterTry(s3, i)

\* connect.ts 105-107 and 133: dropDatabase resolved.
Dropped(s, i) ==
  AfterTry(Log(Did(s, i, "dropDatabase.ok"), "info", <<"---- DROPPED TABLES ----">>, NoErr), i)

\* A push that ignores PAYLOAD_MIGRATING.
WantsPushWhileMigrating(a, e) == e.NODE_ENV # "production" /\ a.push # "false"

\* connect.ts 137-139: whether the dev schema is pushed.
WantsPush(a, e) ==
  /\ e.NODE_ENV # "production"
  /\ e.PAYLOAD_MIGRATING # "true"
  /\ a.push # "false"

\* A migration that ignores NODE_ENV.
WantsMigrateAnyEnv(a, e) == a.prodMigrations # "undefined"

\* connect.ts 148: whether the production migrations run.
WantsMigrate(a, e) == e.NODE_ENV = "production" /\ a.prodMigrations # "undefined"

\* connect.ts 144-150: resolveInitializing, then migrate or return.
Ready(s, i) ==
  LET s1 == IF s.adapter.hasResolveInitializing THEN Did(s, i, "resolveInitializing") ELSE s
  IN IF WantsMigrate(s.adapter, env)
     THEN [At(Did(s1, i, "migrate"), i, "migrate")
             EXCEPT !.calls[i].migrations = s.adapter.prodMigrations]
     ELSE At(s1, i, "returned")

\* A connect that signals readiness before the dev schema is pushed.
AfterExtensionsReadyFirst(s, i) ==
  LET s1 == Did(s, i, "createExtensions.ok")
      s2 == IF s.adapter.hasResolveInitializing THEN Did(s1, i, "resolveInitializing") ELSE s1
  IN IF WantsPush(s.adapter, env)
     THEN At(Did(s2, i, "pushDevSchema"), i, "pushDevSchema")
     ELSE Ready(s1, i)

\* connect.ts 135-150: createExtensions resolved.
AfterExtensions(s, i) ==
  LET s1 == Did(s, i, "createExtensions.ok") IN
  IF WantsPush(s.adapter, env)
  THEN At(Did(s1, i, "pushDevSchema"), i, "pushDevSchema")
  ELSE Ready(s1, i)

\* connect.ts 142-150: pushDevSchema resolved.
AfterPush(s, i) == Ready(Did(s, i, "pushDevSchema.ok"), i)

\* A retry that drops the options of the failed call.
AfterCreateDatabaseDefaultOptions(s, i, isCreated) ==
  IF isCreated
  THEN LET s1 == Did(Did(s, i, "createDatabase.true"), i, "this.connect")
       IN StartConnect(At(s1, i, "this.connect"), i, FALSE)
  ELSE TerminalFailure(Did(s, i, "createDatabase.false"), i)

\* connect.ts 114-119 and 127-130: createDatabase resolved with isCreated.
AfterCreateDatabase(s, i, isCreated) ==
  IF isCreated
  THEN LET s1 == Did(Did(s, i, "createDatabase.true"), i, "this.connect")
       IN StartConnect(At(s1, i, "this.connect"), i, s.calls[i].hotReload)
  ELSE TerminalFailure(Did(s, i, "createDatabase.false"), i)

\* ---------------------------------------------------------------- connectWithReconnect

\* A test that compares the messages in lower case.
IsReconnectErrorAnyCase(err) ==
  \/ err.code = "ECONNRESET"
  \/ (err.hasMessage /\ Includes(LowerAll(err.message), <<"connection", "terminated">>))

\* connect.ts 41-45: the test of the 'error' listener.
IsReconnectError(err) ==
  \/ err.code = "ECONNRESET"
  \/ (err.hasMessage /\ Includes(err.message, <<"Connection", "terminated", "unexpectedly">>))
  \/ (err.hasMessage /\ Includes(err.message, <<"connection", "terminated">>))

\* A listener that reconnects once for each condition the error meets.
ListenerStartsPerCondition(err) ==
  IF err.nullish THEN 0
  ELSE (IF err.code = "ECONNRESET" THEN 1 ELSE 0)
       + (IF err.hasMessage /\ Includes(err.message, <<"Connection", "terminated", "unexpectedly">>)
          THEN 1 ELSE 0)
       + (IF err.hasMessage /\ Includes(err.message, <<"connection", "terminated">>)
          THEN 1 ELSE 0)

\* connect.ts 38-51: how many calls of connectWithReconnect the listener
\* makes for err.  Reading err.code of null or undefined throws inside the try.
ListenerStarts(err) ==
  IF err.nullish THEN 0
  ELSE IF IsReconnectError(err) THEN 1 ELSE 0

\* connect.ts 39, 48-50: whether an exception leaves the listener.
ListenerThrows(err) == FALSE

\* A reconnect that constructs a client of the same kind and connects that one.
StartReconnectOnFreshClient(s, k) ==
  [s EXCEPT !.clients = Append(@, [kind |-> s.clients[k].kind, conns |-> <<>>,
                                   pending |-> 1, timers |-> <<>>])]

\* connect.ts 22-26: connectWithReconnect({reconnect: true}) on client k,
\* up to the await of client.connect().
StartReconnect(s, k) == [s EXCEPT !.clients[k].pending = @ + 1]

RECURSIVE StartReconnects(_, _, _)
\* connect.ts 46: the n calls the listener makes.
StartReconnects(s, k, n) ==
  IF n = 0 THEN s ELSE StartReconnects(StartReconnect(s, k), k, n - 1)

\* A reconnect that binds drizzle to its client again.
ReconnectedRebinding(s, k) ==
  [s EXCEPT !.clients[k].pending = @ - 1,
            !.clients[k].conns = Append(@, [listener |-> TRUE, reconnect |-> TRUE]),
            !.adapter.drizzle = k]

\* connect.ts 26, 35-51: client.connect() of the reconnect path resolved.
Reconnected(s, k) ==
  [s EXCEPT !.clients[k].pending = @ - 1,
            !.clients[k].conns = Append(@, [listener |-> TRUE, reconnect |-> TRUE])]

\* connect.ts 31: the delay of the retry, in milliseconds.
RetryDelay == 1000

\* A retry made at once, with no timer.
RetryAtOnce(s, k) == s

\* A retry made at once and again after the delay.
RetryAtOnceAndLater(s, k) == [s EXCEPT !.clients[k].timers = Append(@, RetryDelay)]

\* connect.ts 27-32, 35: client.connect() of the reconnect path rejected.
RetryLater(s, k) ==
  [s EXCEPT !.clients[k].pending = @ - 1, !.clients[k].timers = Append(@, RetryDelay)]

\* A timer that logs and starts nothing.
RetryNever(s, k) ==
  Log([s EXCEPT !.clients[k].timers = Tail(@)], "info", <<"Reconnecting to postgres">>, NoErr)

\* connect.ts 28-31: the callback of setTimeout.
RetryNow(s, k) ==
  StartReconnect(
    Log([s EXCEPT !.clients[k].timers = Tail(@)], "info", <<"Reconnecting to postgres">>, NoErr), k)

\* ---------------------------------------------------------------- actions

Booleans == {TRUE, FALSE}

\* The adapter as its constructor leaves it, and process.env.
AdapterOf(b, dis, rej, res, push, mig) ==
  [poolOptions |-> b.poolOptions,
   forceUseVercelPostgres |-> b.force,
   disableCreateDatabase |-> dis,
   push |-> push,
   prodMigrations |-> mig,
   hasResolveInitializing |-> res,
   hasRejectInitializing |-> rej,
   schemaName |-> "undefined",
   schema |-> "unset",
   drizzle |-> 0]

EnvOf(b, drop, node, migrating) ==
  [POSTGRES_URL |-> b.url,
   PAYLOAD_DROP_DATABASE |-> drop,
   NODE_ENV |-> node,
   PAYLOAD_MIGRATING |-> migrating]

LocalBackend == [poolOptions |-> PoolOptions(LocalUrl), url |-> Undefined, force |-> FALSE]

\* Every combination of the settings the failure handling and the drop read.
FailureConfigs ==
  \E dis, rej \in Booleans : \E drop \in {"true", "undefined"} :
    /\ adapter = AdapterOf(LocalBackend, dis, rej, TRUE, "undefined", "undefined")
    /\ env = EnvOf(LocalBackend, drop, "development", "undefined")

\* Every combination of the settings the steps after the try block read.
ReadyConfigs ==
  \E res \in Booleans : \E push \in {"false", "undefined"} :
  \E mig \in {"undefined", "migrations"} :
  \E node \in {"production", "development"} : \E migrating \in {"true", "undefined"} :
    /\ res \/ (push = "undefined" /\ mig = "migrations" /\ migrating = "undefined")
    /\ adapter = AdapterOf(LocalBackend, FALSE, TRUE, res, push, mig)
    /\ env = EnvOf(LocalBackend, "undefined", node, migrating)

\* The backends.
OtherBackends ==
  \E b \in BackendConfigs :
    /\ adapter = AdapterOf(b, FALSE, TRUE, TRUE, "undefined", "undefined")
    /\ env = EnvOf(b, "undefined", "development", "undefined")

\* Nothing has happened: no invocation, no 'error' event (handled counts
\* those of the trigger class by the client of the connection), no failure.
NoHistory ==
  [invocations |-> 0, trigger |-> 0, other |-> 0, started |-> 0, failures |-> 0,
   escaped |-> 0, handled |-> [k \in 1..MaxCalls |-> 0]]

Init ==
  /\ FailureConfigs \/ ReadyConfigs \/ OtherBackends
  /\ calls = <<>>
  /\ clients = <<>>
  /\ logger = EmptyBag
  /\ process = [exited |-> FALSE, status |-> 0]
  /\ history = NoHistory

Awaiting(i, pc) == Running /\ i \in 1..Len(calls) /\ calls[i].pc = pc

\* The host calls adapter.connect(options).
Connect(hotReload) ==
  /\ Running
  /\ history.invocations < MaxCalls
  /\ \A i \in 1..Len(calls) : Settled(calls[i].pc)
  /\ Commit(StartConnect([Cur EXCEPT !.calls = <<>>], 0, hotReload))
  /\ history' = [history EXCEPT !.invocations = @ + 1]
  /\ UNCHANGED env

ClientConnectResolves(i) ==
  /\ Awaiting(i, "client.connect")
  /\ Commit(Connected(Cur, i))
  /\ UNCHANGED <<env, history>>

\* A rejection that also schedules the retry of the reconnect path.
ClientConnectRejectsAndRetries(i, err) ==
  /\ Awaiting(i, "client.connect")
  /\ Commit([HandleFailure(Cur, i, err) EXCEPT
               !.clients[calls[i].client].timers = Append(@, RetryDelay)])
  /\ UNCHANGED <<env, history>>

\* connect.ts 23, 91, 108: client.connect() of the non-reconnect path rejected.
ClientConnectRejects(i, err) ==
  /\ Awaiting(i, "client.connect")
  /\ Commit(HandleFailure(Cur, i, err))
  /\ UNCHANGED <<env, history>>

DropDatabaseResolves(i) ==
  /\ Awaiting(i, "dropDatabase")
  /\ Commit(Dropped(Cur, i))
  /\ UNCHANGED <<env, history>>

DropDatabaseRejects(i, err) ==
  /\ Awaiting(i, "dropDatabase")
  /\ Commit(HandleFailure(Cur, i, err))
  /\ UNCHANGED <<env, history>>

CreateDatabaseResolves(i, isCreated) ==
  /\ Awaiting(i, "createDatabase")
  /\ isCreated => history.invocations < MaxCalls
  /\ Commit(AfterCreateDatabase(Cur, i, isCreated))
  /\ history' = [history EXCEPT !.invocations = @ + (IF isCreated THEN 1 ELSE 0)]
  /\ UNCHANGED env

\* A rejection that takes the terminal failure handling of connect.
RejectsIntoTerminalFailure(i, pc) ==
  /\ Awaiting(i, pc)
  /\ Commit(TerminalFailure(Cur, i))
  /\ UNCHANGED <<env, history>>

\* An awaited collaborator outside the try block rejects: connect rejects.
Rejects(i, pc) ==
  /\ Awaiting(i, pc)
  /\ Commit(At(Cur, i, "threw"))
  /\ UNCHANGED <<env, history>>

CreateDatabaseRejects(i) == Rejects(i, "createDatabase")

\* A recursive call after which the outer invocation goes on.
ThisConnectReturnsAndContinues(i) ==
  /\ Awaiting(i, "this.connect")
  /\ ChildOf(calls, i) # 0
  /\ calls[ChildOf(calls, i)].pc = "returned"
  /\ Commit(AfterTry(Cur, i))
  /\ UNCHANGED <<env, history>>

\* connect.ts 117-118: the recursive call returned.
ThisConnectReturns(i) ==
  /\ Awaiting(i, "this.connect")
  /\ ChildOf(calls, i) # 0
  /\ calls[ChildOf(calls, i)].pc = "returned"
  /\ Commit(At(Cur, i, "returned"))
  /\ UNCHANGED <<env, history>>

\* connect.ts 117: the recursive call rejected, inside the catch block.
ThisConnectThrows(i) ==
  /\ Awaiting(i, "this.connect")
  /\ ChildOf(calls, i) # 0
  /\ calls[ChildOf(calls, i)].pc = "threw"
  /\ Commit(At(Cur, i, "threw"))
  /\ UNCHANGED <<env, history>>

CreateExtensionsResolves(i) ==
  /\ Awaiting(i, "createExtensions")
  /\ Commit(AfterExtensions(Cur, i))
  /\ UNCHANGED <<env, history>>

CreateExtensionsRejects(i) == Rejects(i, "createExtensions")

PushDevSchemaResolves(i) ==
  /\ Awaiting(i, "pushDevSchema")
  /\ Commit(AfterPush(Cur, i))
  /\ UNCHANGED <<env, history>>

PushDevSchemaRejects(i) == Rejects(i, "pushDevSchema")

MigrateResolves(i) ==
  /\ Awaiting(i, "migrate")
  /\ Commit(At(Did(Cur, i, "migrate.ok"), i, "returned"))
  /\ UNCHANGED <<env, history>>

MigrateRejects(i) == Rejects(i, "migrate")

\* Connection c of client k emits 'error' with err: the listener of connect.ts 38-51 runs.
ErrorEvent(k, c, err) ==
  /\ Running
  /\ k \in 1..Len(clients)
  /\ c \in 1..Len(clients[k].conns)
  /\ clients[k].conns[c].listener
  /\ history.trigger + history.other < MaxErrors
  /\ LET n == ListenerStarts(err) IN
     /\ Commit(StartReconnects(Cur, k, n))
     /\ history' = [history EXCEPT
                      !.trigger = @ + (IF err \in TriggerClass THEN 1 ELSE 0),
                      !.other = @ + (IF err \in TriggerClass THEN 0 ELSE 1),
                      !.started = @ + n,
                      !.handled[k] = @ + (IF err \in TriggerClass THEN 1 ELSE 0),
                      !.escaped = @ + (IF ListenerThrows(err) THEN 1 ELSE 0)]
  /\ UNCHANGED env

ReconnectResolves(k) ==
  /\ Running
  /\ k \in 1..Len(clients)
  /\ clients[k].pending > 0
  /\ Commit(Reconnected(Cur, k))
  /\ UNCHANGED <<env, history>>

ReconnectRejects(k) ==
  /\ Running
  /\ k \in 1..Len(clients)
  /\ clients[k].pending > 0
  /\ history.failures < MaxFailures
  /\ Commit(RetryLater(Cur, k))
  /\ history' = [history EXCEPT !.failures = @ + 1]
  /\ UNCHANGED env

TimerFires(k) ==
  /\ Running
  /\ k \in 1..Len(clients)
  /\ clients[k].timers # <<>>
  /\ Commit(RetryNow(Cur, k))
  /\ UNCHANGED <<env, history>>

Next ==
  \/ \E h \in Booleans : Connect(h)
  \/ \E i \in 1..MaxCalls :
       \/ ClientConnectResolves(i)
       \/ \E err \in ConnectErrors : ClientConnectRejects(i, err)
       \/ DropDatabaseResolves(i)
       \/ \E err \in ConnectErrors : DropDatabaseRejects(i, err)
       \/ \E b \in Booleans : CreateDatabaseResolves(i, b)
       \/ CreateDatabaseRejects(i)
       \/ ThisConnectReturns(i)
       \/ ThisConnectThrows(i)
       \/ CreateExtensionsResolves(i)
       \/ CreateExtensionsRejects(i)
       \/ PushDevSchemaResolves(i)
       \/ PushDevSchemaRejects(i)
       \/ MigrateResolves(i)
       \/ MigrateRejects(i)
  \/ \E k \in 1..MaxCalls :
       \/ \E c \in 1..(MaxErrors + 1) : \E err \in ListenerErrors : ErrorEvent(k, c, err)
       \/ ReconnectResolves(k)
       \/ ReconnectRejects(k)
       \/ TimerFires(k)

Spec == Init /\ [][Next]_vars

\* The configurations the liveness specification starts from: tables are
\* dropped, the database is created on demand, and either the dev schema is
\* pushed or the production migrations run.
LiveConfigs ==
  \E node \in {"production", "development"} :
    /\ adapter = AdapterOf(LocalBackend, FALSE, TRUE, TRUE, "undefined", "migrations")
    /\ env = EnvOf(LocalBackend, "true", node, "undefined")

LiveInit ==
  /\ LiveConfigs
  /\ calls = <<>>
  /\ clients = <<>>
  /\ logger = EmptyBag
  /\ process = [exited |-> FALSE, status |-> 0]
  /\ history = NoHistory

\* The event loop runs every timer that is due, and every client.connect()
\* of the reconnect path settles; it fails at most MaxFailures times.
LiveSpec ==
  /\ LiveInit
  /\ [][Next]_vars
  /\ WF_vars(\E k \in 1..MaxCalls : TimerFires(k))
  /\ WF_vars(\E k \in 1..MaxCalls : ReconnectResolves(k) \/ ReconnectRejects(k))

\* Every configuration the backend selection reads.
SelectConfigs ==
  \E po \in {NoPoolOptions} \cup {PoolOptions(cs) : cs \in ConnectionStrings} :
  \E url \in ConnectionStrings : \E force \in Booleans :
    LET b == [poolOptions |-> po, url |-> url, force |-> force] IN
    /\ adapter = AdapterOf(b, FALSE, TRUE, TRUE, "undefined", "undefined")
    /\ env = EnvOf(b, "undefined", "development", "undefined")

SelectInit ==
  /\ SelectConfigs
  /\ calls = <<>>
  /\ clients = <<>>
  /\ logger = EmptyBag
  /\ process = [exited |-> FALSE, status |-> 0]
  /\ history = NoHistory

\* connect.ts 60-91 from every configuration: the client is selected and
\* constructed, and connect awaits client.connect().
SelectNext == \E h \in Booleans : calls = <<>> /\ Connect(h)

SelectSpec == SelectInit /\ [][SelectNext]_vars

\* ---------------------------------------------------------------- properties

\* How often op occurs in the history tr.
Count(tr, op) == Cardinality({j \in 1..Len(tr) : tr[j] = op})

Has(tr, op) == \E j \in 1..Len(tr) : tr[j] = op

\* Every occurrence of op in tr has an occurrence of first before it.
Precedes(tr, first, op) ==
  \A j \in 1..Len(tr) : tr[j] = op => \E m \in 1..(j - 1) : tr[m] = first

\* Every pushDevSchema of tr was called, and had resolved, before place j.
PushesDoneBefore(tr, j) ==
  /\ \A m \in 1..Len(tr) : tr[m] = "pushDevSchema" => m < j
  /\ Count(tr, "pushDevSchema") = Count(SubSeq(tr, 1, j - 1), "pushDevSchema.ok")

Invocations == 1..Len(calls)

\* The connection objects that carry an 'error' listener.
Listeners ==
  {kc \in (1..Len(clients)) \X (1..(MaxCalls + MaxErrors + 1)) :
     /\ kc[2] <= Len(clients[kc[1]].conns)
     /\ clients[kc[1]].conns[kc[2]].listener}

\* The messages the pattern /database .* does not exist/i matches.
MissingDatabaseClass == {MissingDb, MissingDbUpper}

\* C1: in every invocation of connect, createExtensions is called only
\* after client.connect() succeeded and drizzle is bound, and before
\* pushDevSchema; pushDevSchema has resolved before resolveInitializing is
\* called; migrate is called only after resolveInitializing (after the place
\* of that call, when the adapter has no such callback).
C1_LifecycleOrder ==
  \A i \in Invocations :
    LET tr == calls[i].trace IN
    /\ Precedes(tr, "connected", "createExtensions")
    /\ Precedes(tr, "drizzle", "createExtensions")
    /\ Precedes(tr, "createExtensions.ok", "pushDevSchema")
    /\ \A j \in 1..Len(tr) :
         tr[j] = "resolveInitializing" =>
           /\ PushesDoneBefore(tr, j)
           /\ \E m \in 1..(j - 1) : tr[m] = "createExtensions.ok"
    /\ \A j \in 1..Len(tr) :
         tr[j] = "migrate" =>
           /\ PushesDoneBefore(tr, j)
           /\ \E m \in 1..(j - 1) : tr[m] = "createExtensions.ok"
           /\ adapter.hasResolveInitializing =>
                \E m \in 1..(j - 1) : tr[m] = "resolveInitializing"
           /\ \A m \in 1..Len(tr) : tr[m] = "resolveInitializing" => m < j

C1_Witness ==
  \E i \in Invocations :
    /\ calls[i].pc = "returned"
    /\ Has(calls[i].trace, "pushDevSchema.ok")
    /\ Has(calls[i].trace, "resolveInitializing")

\* C2: at most one connection object carries an 'error' listener that can
\* still start a reconnect.
C2_AtMostOneActive == Cardinality(Listeners) <= 1

\* The children of invocation i: the invocations it made at "this.connect".
Children(i) == {j \in Invocations : calls[j].parent = i}

CaughtMissingDatabase(i) ==
  calls[i].caught # <<>> /\ calls[i].caught[1] \in MissingDatabaseClass

\* C3 as stated: after a top-level call failed with a missing database and
\* auto-creation enabled, createDatabase has been called once and connect
\* re-invoked at most once, the recursive invocations counted in.
C3_OnceAcrossRecursion ==
  (/\ calls # <<>>
   /\ CaughtMissingDatabase(1)
   /\ ~adapter.disableCreateDatabase)
  => /\ Cardinality({i \in Invocations : Has(calls[i].trace, "createDatabase")}) = 1
     /\ \A i \in Invocations : Count(calls[i].trace, "createDatabase") <= 1
     /\ Len(calls) <= 2

\* C3 amended: every invocation of connect that fails with a missing
\* database and auto-creation enabled calls createDatabase exactly once
\* itself, and re-invokes connect exactly when createDatabase resolved
\* truthy, at most once and with the options it was given; an invocation
\* that did not fail so calls neither.
C3_OncePerInvocation ==
  \A i \in Invocations :
    LET tr == calls[i].trace IN
    /\ (CaughtMissingDatabase(i) /\ ~adapter.disableCreateDatabase)
         => Count(tr, "createDatabase") = 1
    /\ ~(CaughtMissingDatabase(i) /\ ~adapter.disableCreateDatabase)
         => Count(tr, "createDatabase") = 0
    /\ Len(calls[i].caught) <= 1
    /\ Count(tr, "this.connect") = Count(tr, "createDatabase.true")
    /\ Count(tr, "this.connect") <= 1
    /\ Cardinality(Children(i)) = Count(tr, "this.connect")
    /\ \A j \in Children(i) : calls[j].hotReload = calls[i].hotReload

C3_Witness ==
  /\ Len(calls) = 2
  /\ CaughtMissingDatabase(1)
  /\ calls[1].hotReload
  /\ Has(calls[1].trace, "this.connect")
  /\ CaughtMissingDatabase(2)
  /\ Has(calls[2].trace, "createDatabase")

RECURSIVE TotalPending(_)
\* The connect attempts of the reconnect path in flight.
TotalPending(cs) == IF cs = <<>> THEN 0 ELSE Head(cs).pending + TotalPending(Tail(cs))

RECURSIVE TotalTimers(_)
\* The retry timers that have not fired.
TotalTimers(cs) == IF cs = <<>> THEN 0 ELSE Len(Head(cs).timers) + TotalTimers(Tail(cs))

ReconnectLogs ==
  CopiesIn([level |-> "info", msg |-> <<"Reconnecting to postgres">>, err |-> NoErr], logger)

OneSecond == 1000

\* C4: an 'error' event of the trigger class starts exactly one
\* connectWithReconnect({reconnect: true}), on the client of the connection,
\* and the listener returns with that attempt still in flight; nothing else
\* changes.
C4_OneReconnectPerTrigger ==
  [][history'.trigger = history.trigger + 1 =>
       /\ history'.started = history.started + 1
       /\ history'.escaped = history.escaped
       /\ \E k \in 1..Len(clients) : clients' = [clients EXCEPT ![k].pending = @ + 1]
       /\ TotalPending(clients') = TotalPending(clients) + 1
       /\ UNCHANGED <<adapter, calls, logger, process>>]_vars

C4_Witness ==
  /\ history.trigger >= 1
  /\ history.started >= 1
  /\ TotalPending(clients) >= 1

\* C5: an 'error' event outside the trigger class starts no reconnect,
\* schedules no timer, logs nothing and throws nothing: the state is as it
\* was.
C5_OtherErrorsIgnored ==
  /\ [](history.escaped = 0)
  /\ [][history'.other = history.other + 1 =>
          /\ UNCHANGED <<adapter, env, calls, clients, logger, process>>
          /\ history' = [history EXCEPT !.other = @ + 1]]_vars

C5_Witness ==
  /\ history.other >= 1
  /\ history.trigger = 0
  /\ Cardinality(Listeners) = 1

\* C6: a failed attempt of the reconnect path schedules exactly one timer of
\* one second and starts nothing until it fires; the timer logs
\* 'Reconnecting to postgres' and starts one attempt on the same client;
\* no failure reaches a caller of connect or ends the process.
C6_RetryAfterDelay ==
  /\ [](/\ ReconnectLogs + TotalTimers(clients) = history.failures
        /\ \A k \in 1..Len(clients) : \A t \in 1..Len(clients[k].timers) :
             clients[k].timers[t] = OneSecond)
  /\ [][/\ history'.failures = history.failures + 1 =>
             /\ \E k \in 1..Len(clients) :
                  clients' = [clients EXCEPT ![k].pending = @ - 1,
                                             ![k].timers = Append(@, OneSecond)]
             /\ UNCHANGED <<adapter, calls, logger, process>>
        /\ TotalTimers(clients') < TotalTimers(clients) =>
             /\ ReconnectLogs' = ReconnectLogs + 1
             /\ \E k \in 1..Len(clients) :
                  /\ clients[k].timers # <<>>
                  /\ clients' = [clients EXCEPT ![k].timers = Tail(@),
                                                ![k].pending = @ + 1]
             /\ UNCHANGED <<adapter, calls, process>>
        /\ ReconnectLogs' # ReconnectLogs =>
             TotalTimers(clients') = TotalTimers(clients) - 1]_vars

C6_Witness ==
  /\ history.failures >= 2
  /\ ReconnectLogs >= 2
  /\ TotalPending(clients) >= 1
  /\ ~process.exited

\* The connection objects the reconnect path has returned, each with its listener.
ReconnectedCount ==
  Cardinality({kc \in Listeners : clients[kc[1]].conns[kc[2]].reconnect})

\* C7 as stated: every 'error' of the trigger class is followed by a
\* successful connect of the reconnect path, whose connection has the listener.
C7_EveryTriggerRecovers ==
  \A n \in 1..MaxErrors : (history.trigger >= n) ~> (ReconnectedCount >= n)

\* C7 amended: every 'error' of the trigger class is followed by a successful
\* connect of the reconnect path, whose connection has the listener, unless
\* the process has exited by then through the failure handling of a connect
\* call; the steps of the recovery change neither the calls of connect nor
\* the process.
C7_RecoversUnlessExited ==
  /\ \A n \in 1..MaxErrors : (history.trigger >= n) ~> (ReconnectedCount >= n \/ process.exited)
  /\ [][(\/ history'.failures # history.failures
         \/ TotalTimers(clients') # TotalTimers(clients)
         \/ TotalPending(clients') # TotalPending(clients)
         \/ ReconnectedCount' # ReconnectedCount)
        => UNCHANGED <<calls, process>>]_vars

C7_Witness ==
  /\ history.trigger >= 1
  /\ history.failures >= 1
  /\ ReconnectedCount >= 1
  /\ ~process.exited

\* C8: with disableCreateDatabase set, every failure caught by the try block
\* of connect, a missing database included, is logged at error level as
\* 'Error: cannot connect to Postgres. Details: <message>' and ends the
\* process; createDatabase is not called and connect is not re-invoked.
C8_DisabledCreateIsFatal ==
  adapter.disableCreateDatabase =>
    \A i \in Invocations :
      LET tr == calls[i].trace
          err == calls[i].caught[1]
          text == IF err.hasMessage THEN err.message ELSE <<"undefined">>
      IN /\ ~Has(tr, "createDatabase")
         /\ ~Has(tr, "this.connect")
         /\ Children(i) = {}
         /\ calls[i].caught # <<>> =>
              /\ calls[i].pc = "exited"
              /\ process = [exited |-> TRUE, status |-> 1]
              /\ BagIn([level |-> "error",
                        msg |-> <<"Error: cannot connect to Postgres. Details:">> \o text,
                        err |-> err], logger)

C8_Witness ==
  /\ adapter.disableCreateDatabase
  /\ calls # <<>>
  /\ CaughtMissingDatabase(1)
  /\ calls[1].pc = "exited"
  /\ process.exited

\* The three ways into the terminal failure handling of invocation i.
ReachesTerminalFailure(i) ==
  \/ calls[i].caught # <<>> /\ ~CaughtMissingDatabase(i)
  \/ CaughtMissingDatabase(i) /\ adapter.disableCreateDatabase
  \/ Has(calls[i].trace, "createDatabase.false")

\* C9: an invocation that reaches the terminal failure handling calls
\* rejectInitializing once when the adapter has it, then exits the process
\* with status 1; it calls none of createExtensions, pushDevSchema,
\* resolveInitializing and migrate; and nothing runs after the exit.
C9_TerminalFailure ==
  /\ [](\A i \in Invocations :
          LET tr == calls[i].trace IN
          /\ ReachesTerminalFailure(i) <=> calls[i].pc = "exited"
          /\ calls[i].pc = "exited" =>
               /\ Count(tr, "rejectInitializing") = (IF adapter.hasRejectInitializing THEN 1 ELSE 0)
               /\ Count(tr, "process.exit") = 1
               /\ tr[Len(tr)] = "process.exit"
               /\ adapter.hasRejectInitializing => tr[Len(tr) - 1] = "rejectInitializing"
               /\ process = [exited |-> TRUE, status |-> 1]
               /\ ~Has(tr, "createExtensions")
               /\ ~Has(tr, "pushDevSchema")
               /\ ~Has(tr, "resolveInitializing")
               /\ ~Has(tr, "migrate"))
  /\ [](process.exited <=> \E i \in Invocations : calls[i].pc = "exited")
  /\ [][~process.exited]_vars

C9_Witness ==
  \E i \in Invocations :
    /\ Has(calls[i].trace, "createDatabase.false")
    /\ Has(calls[i].trace, "rejectInitializing")
    /\ calls[i].pc = "exited"

\* C10: an invocation of connect calls dropDatabase, once, exactly when
\* hotReload is false, PAYLOAD_DROP_DATABASE is 'true' and its
\* client.connect() and drizzle binding succeeded.
C10_DropOnlyWhenNotHotReload ==
  \A i \in Invocations :
    LET tr == calls[i].trace IN
    /\ Has(tr, "dropDatabase") <=>
         (/\ ~calls[i].hotReload
          /\ env.PAYLOAD_DROP_DATABASE = "true"
          /\ Has(tr, "connected")
          /\ Has(tr, "drizzle"))
    /\ Count(tr, "dropDatabase") <= 1
    /\ Precedes(tr, "drizzle", "dropDatabase")

C10_Witness ==
  \E i \in Invocations :
    /\ calls[i].hotReload
    /\ env.PAYLOAD_DROP_DATABASE = "true"
    /\ Has(calls[i].trace, "drizzle")
    /\ calls[i].pc = "returned"
    /\ ~Has(calls[i].trace, "dropDatabase")

\* C11: an invocation of connect whose createExtensions resolved calls
\* pushDevSchema exactly once when NODE_ENV is not 'production',
\* PAYLOAD_MIGRATING is not 'true' and push is not false, and never
\* otherwise; an invocation whose createExtensions did not resolve never
\* calls it; and pushDevSchema has resolved before resolveInitializing is
\* called.
C11_PushWhenEnabled ==
  \A i \in Invocations :
    LET tr == calls[i].trace
        enabled == /\ env.NODE_ENV # "production"
                   /\ env.PAYLOAD_MIGRATING # "true"
                   /\ adapter.push # "false"
    IN /\ Has(tr, "createExtensions.ok") =>
            Count(tr, "pushDevSchema") = (IF enabled THEN 1 ELSE 0)
       /\ ~Has(tr, "createExtensions.ok") => ~Has(tr, "pushDevSchema")
       /\ Precedes(tr, "createExtensions.ok", "pushDevSchema")
       /\ Count(tr, "pushDevSchema.ok") <= Count(tr, "pushDevSchema")
       /\ \A j \in 1..Len(tr) :
            tr[j] = "resolveInitializing" =>
              /\ Count(SubSeq(tr, 1, j - 1), "pushDevSchema") = (IF enabled THEN 1 ELSE 0)
              /\ Count(SubSeq(tr, 1, j - 1), "pushDevSchema.ok") = (IF enabled THEN 1 ELSE 0)
              /\ ~Has(SubSeq(tr, j + 1, Len(tr)), "pushDevSchema")

C11_Witness ==
  \E i \in Invocations :
    LET tr == calls[i].trace IN
    /\ env.NODE_ENV = "development"
    /\ env.PAYLOAD_MIGRATING = "undefined"
    /\ adapter.push = "undefined"
    /\ Count(tr, "pushDevSchema") = 1
    /\ tr[Len(tr)] = "resolveInitializing"
    /\ tr[Len(tr) - 1] = "pushDevSchema.ok"

\* Invocation i got to the place of resolveInitializing: createExtensions
\* resolved, and so did pushDevSchema when it was called.
ReachedReady(i) ==
  LET tr == calls[i].trace IN
  /\ Has(tr, "createExtensions.ok")
  /\ Count(tr, "pushDevSchema") = Count(tr, "pushDevSchema.ok")

\* C12: an invocation of connect that got to the place of resolveInitializing
\* calls migrate exactly once, with the prodMigrations of the adapter, when
\* NODE_ENV is 'production' and prodMigrations is set, and never otherwise;
\* an invocation that did not get there never calls it; and no invocation
\* calls both migrate and pushDevSchema.
C12_MigrateInProduction ==
  \A i \in Invocations :
    LET tr == calls[i].trace
        wanted == env.NODE_ENV = "production" /\ adapter.prodMigrations # "undefined"
    IN /\ ReachedReady(i) => Count(tr, "migrate") = (IF wanted THEN 1 ELSE 0)
       /\ ~ReachedReady(i) => ~Has(tr, "migrate")
       /\ Has(tr, "migrate") <=> calls[i].migrations # "none"
       /\ Has(tr, "migrate") => calls[i].migrations = adapter.prodMigrations
       /\ ~(Has(tr, "migrate") /\ Has(tr, "pushDevSchema"))
       /\ Count(tr, "migrate.ok") <= Count(tr, "migrate")

C12_Witness ==
  \E i \in Invocations :
    /\ env.NODE_ENV = "production"
    /\ calls[i].migrations = "migrations"
    /\ Has(calls[i].trace, "migrate.ok")
    /\ calls[i].pc = "returned"

\* The client the first invocation of connect constructed, or "none".
Chosen ==
  IF calls = <<>> \/ calls[1].client = 0 THEN "none" ELSE clients[calls[1].client].kind

\* The connection string of poolOptions when it has one, else POSTGRES_URL.
Configured ==
  IF adapter.poolOptions.present /\ adapter.poolOptions.connectionString # Undefined
  THEN adapter.poolOptions.connectionString
  ELSE env.POSTGRES_URL

\* The connection strings by their host.
LocalHostUrls == {LocalUrl, LoopbackUrl}

OtherHostUrls == {RemoteUrl, UpperLocalUrl, Ipv6LoopbackUrl}

\* C13: connect constructs the local pg.Pool exactly when
\* forceUseVercelPostgres is false and the host of the configured connection
\* string is '127.0.0.1' or 'localhost'; with any other host, with no
\* connection string, or with forceUseVercelPostgres, it constructs a hosted
\* client: a VercelPool when poolOptions is given, the default sql otherwise.
\* The choice depends on nothing but the configuration.
C13_BackendSelection ==
  calls # <<>> =>
    /\ Chosen = "pg.Pool" <=>
         (~adapter.forceUseVercelPostgres /\ Configured \in LocalHostUrls)
    /\ (\/ adapter.forceUseVercelPostgres
        \/ Configured \in {Undefined, EmptyString}
        \/ Configured \in OtherHostUrls)
       => Chosen = (IF adapter.poolOptions.present THEN "VercelPool" ELSE "sql")
    /\ Chosen \in {"pg.Pool", "VercelPool", "sql", "none"}
    /\ Chosen = "none" => calls[1].caught = <<InvalidUrlError>>

C13_Witness ==
  /\ calls # <<>>
  /\ adapter.poolOptions = PoolOptions(Undefined)
  /\ env.POSTGRES_URL = LoopbackUrl
  /\ ~adapter.forceUseVercelPostgres
  /\ Chosen = "pg.Pool"

\* The awaited calls that follow the try block of connect.
Downstream == {"createExtensions", "pushDevSchema", "migrate"}

\* Invocation i rejected because the call its history ends with rejected.
FailedDownstream(i) ==
  /\ calls[i].pc = "threw"
  /\ calls[i].trace # <<>>
  /\ calls[i].trace[Len(calls[i].trace)] \in Downstream

\* The invocations that await, directly or not, the outcome of invocation i.
RECURSIVE Ancestors(_)
Ancestors(i) ==
  IF calls[i].parent = 0 THEN {} ELSE {calls[i].parent} \cup Ancestors(calls[i].parent)

\* The event that records the resolution of the call op.
Resolution(op) ==
  CASE op = "createExtensions" -> "createExtensions.ok"
    [] op = "pushDevSchema" -> "pushDevSchema.ok"
    [] op = "migrate" -> "migrate.ok"

\* C14: when createExtensions, pushDevSchema or migrate rejects, the
\* invocation of connect rejects and does nothing else: the catch block is
\* not entered, nothing is logged, createDatabase and rejectInitializing are
\* not called, the process does not exit, and no later step of the invocation
\* runs (no resolveInitializing after a failed createExtensions or
\* pushDevSchema); an invocation that awaits it at this.connect can only
\* reject in turn.
C14_DownstreamFailurePropagates ==
  /\ [](\A i \in Invocations :
          LET tr == calls[i].trace IN
          \A j \in 1..Len(tr) :
            tr[j] \in Downstream =>
              /\ calls[i].caught = <<>>
              /\ \/ j = Len(tr) /\ calls[i].pc \in {tr[j], "threw"}
                 \/ j < Len(tr) /\ tr[j + 1] = Resolution(tr[j]))
  /\ [](\A i \in Invocations :
          LET tr == calls[i].trace IN
          FailedDownstream(i) =>
            /\ calls[i].caught = <<>>
            /\ ~Has(tr, "createDatabase")
            /\ ~Has(tr, "rejectInitializing")
            /\ ~Has(tr, "process.exit")
            /\ ~process.exited
            /\ tr[Len(tr)] \in {"createExtensions", "pushDevSchema"} =>
                 ~Has(tr, "resolveInitializing") /\ ~Has(tr, "migrate")
            /\ tr[Len(tr)] = "createExtensions" => ~Has(tr, "pushDevSchema")
            /\ \A a \in Ancestors(i) : calls[a].pc \in {"this.connect", "threw"})
  /\ [][\A i \in Invocations :
          /\ (calls[i].pc \in Downstream /\ calls'[i].pc = "threw") =>
               /\ calls' = [calls EXCEPT ![i].pc = "threw"]
               /\ UNCHANGED <<adapter, env, clients, logger, process, history>>
          /\ (FailedDownstream(i) /\ history'.invocations = history.invocations) =>
               /\ calls'[i] = calls[i]
               /\ \A a \in Ancestors(i) :
                    /\ calls'[a].pc \in {"this.connect", "threw"}
                    /\ calls'[a].trace = calls[a].trace
                    /\ calls'[a].caught = calls[a].caught]_vars

C14_Witness ==
  /\ Len(calls) = 2
  /\ FailedDownstream(2)
  /\ calls[2].trace[Len(calls[2].trace)] = "pushDevSchema"
  /\ calls[1].pc = "threw"
  /\ ~process.exited

\* The client handles that have returned a connection with a listener.
Reporting == {k \in 1..Len(clients) : \E c \in 1..Len(clients[k].conns) : clients[k].conns[c].listener}

\* C15 as stated: the attempt that answers an 'error' of the trigger class,
\* and every retry, is made on a client handle constructed for it, and not
\* on a handle one of whose connections has reported an error.
C15_FreshHandlePerReconnect ==
  [][TotalPending(clients') > TotalPending(clients) =>
       /\ Len(clients') = Len(clients) + 1
       /\ clients'[Len(clients')].pending = 1
       /\ \A k \in Reporting : clients'[k].pending = clients[k].pending]_vars

\* C15 amended: the attempt that answers an 'error' of the trigger class,
\* and every retry, calls connect() on the client handle that connect
\* constructed and whose connection has the listener; only invocations of
\* connect construct client handles, one each at most, and a handle never
\* changes its kind; a successful attempt adds a connection object to the
\* same handle.
C15_ReconnectReusesClient ==
  /\ [](/\ Len(clients) <= history.invocations
        /\ \A k \in 1..Len(clients) :
             (clients[k].pending > 0 \/ clients[k].timers # <<>>) => k \in Reporting)
  /\ [][/\ Len(clients') # Len(clients) =>
             /\ history'.invocations = history.invocations + 1
             /\ Len(clients') = Len(clients) + 1
             /\ clients'[Len(clients')].pending = 0
        /\ \A k \in 1..Len(clients) : clients'[k].kind = clients[k].kind
        /\ TotalPending(clients') > TotalPending(clients) =>
             \E k \in Reporting :
               \/ clients' = [clients EXCEPT ![k].pending = @ + 1]
               \/ /\ clients[k].timers # <<>>
                  /\ clients' = [clients EXCEPT ![k].pending = @ + 1, ![k].timers = Tail(@)]
        /\ (TotalPending(clients') < TotalPending(clients)) =>
             \E k \in Reporting :
               \/ clients' = [clients EXCEPT ![k].pending = @ - 1,
                                             ![k].timers = Append(@, OneSecond)]
               \/ clients' = [clients EXCEPT
                                ![k].pending = @ - 1,
                                ![k].conns = Append(@, [listener |-> TRUE, reconnect |-> TRUE])]
       ]_vars

C15_Witness ==
  /\ Len(clients) = 1
  /\ history.invocations = 1
  /\ history.failures >= 1
  /\ Len(clients[1].conns) = 2
  /\ clients[1].conns[2].reconnect
  /\ clients[1].pending = 0

\* A step of the reconnect path: an 'error' event, an attempt settling, a timer.
ReconnectStep ==
  \/ history'.trigger # history.trigger
  \/ history'.other # history.other
  \/ history'.failures # history.failures
  \/ TotalPending(clients') # TotalPending(clients)
  \/ TotalTimers(clients') # TotalTimers(clients)
  \/ ReconnectedCount' # ReconnectedCount

\* C16 as stated: no step changes an attribute of the adapter other than the
\* slot of the query layer (the code has no slot for the client handle).
C16_OnlyClientAndQueryLayer ==
  [][adapter' = [adapter EXCEPT !.drizzle = adapter'.drizzle]]_vars

\* C16 amended: the only attributes of the adapter that change are schema,
\* which every invocation of connect assembles on entry, and drizzle, which
\* an invocation binds to the client it constructed when its client.connect()
\* resolves; poolOptions, schemaName, the flags, prodMigrations and the
\* callbacks never change, nor does process.env; and no step of the
\* reconnect path changes the adapter at all.
C16_OnlySchemaAndQueryLayer ==
  /\ [](adapter.drizzle \in 0..Len(clients))
  /\ [][/\ adapter' = [adapter EXCEPT !.schema = adapter'.schema, !.drizzle = adapter'.drizzle]
        /\ env' = env
        /\ adapter'.schema # adapter.schema =>
             /\ adapter'.schema = "assembled"
             /\ history'.invocations = history.invocations + 1
        /\ history'.invocations # history.invocations => adapter'.schema = "assembled"
        /\ adapter'.drizzle # adapter.drizzle =>
             \E i \in Invocations :
               /\ calls[i].pc = "client.connect"
               /\ Has(calls'[i].trace, "drizzle")
               /\ adapter'.drizzle = calls[i].client
        /\ ReconnectStep => adapter' = adapter]_vars

C16_Witness ==
  /\ Len(clients) = 2
  /\ adapter.schema = "assembled"
  /\ adapter.drizzle = 2
  /\ Len(clients[1].conns) = 2
  /\ clients[1].conns[2].reconnect

\* The client.connect() that invocation i awaited at connect.ts 91 rejected.
InitialConnectFailed(i) ==
  /\ calls[i].client # 0
  /\ calls[i].caught # <<>>
  /\ ~Has(calls[i].trace, "connected")

\* C17: when the client.connect() that connect awaits rejects, the catch
\* block of connect receives that error and goes on to createDatabase or to
\* the terminal failure; the step schedules no timer, starts no attempt and
\* attaches no listener, and the invocation never binds drizzle: its client
\* never has a connection, an attempt in flight or a timer.
C17_InitialFailurePropagates ==
  /\ [](\A i \in Invocations :
          InitialConnectFailed(i) =>
            /\ ~Has(calls[i].trace, "drizzle")
            /\ adapter.drizzle # calls[i].client
            /\ clients[calls[i].client].conns = <<>>
            /\ clients[calls[i].client].pending = 0
            /\ clients[calls[i].client].timers = <<>>
            /\ \/ Has(calls[i].trace, "createDatabase")
               \/ Has(calls[i].trace, "process.exit"))
  /\ [][\A i \in Invocations :
          (calls[i].pc = "client.connect" /\ calls'[i].pc # "client.connect") =>
             \/ /\ Has(calls'[i].trace, "connected")
                /\ calls'[i].caught = <<>>
             \/ /\ calls'[i].caught \in {<<e>> : e \in ConnectErrors}
                /\ calls'[i].pc \in {"createDatabase", "exited"}
                /\ clients' = clients
                /\ adapter' = adapter
                /\ UNCHANGED history]_vars

C17_Witness ==
  \E i \in Invocations :
    /\ InitialConnectFailed(i)
    /\ calls[i].pc = "createDatabase"
    /\ clients[calls[i].client].conns = <<>>
    /\ TotalTimers(clients) = 0

\* The connection objects client.connect() has returned, over all clients.
RECURSIVE TotalConns(_)
TotalConns(cs) == IF cs = <<>> THEN 0 ELSE Len(Head(cs).conns) + TotalConns(Tail(cs))

\* The step settles an attempt with success: the client.connect() an
\* invocation of connect awaits, or one of the reconnect path.
AttemptSucceeds(k) ==
  \/ \E i \in Invocations :
       /\ calls[i].pc = "client.connect"
       /\ calls[i].client = k
       /\ Has(calls'[i].trace, "connected")
  \/ /\ clients[k].pending > 0
     /\ clients'[k].pending = clients[k].pending - 1
     /\ history'.failures = history.failures

\* C18: every connection object carries the listener, and connection
\* objects come from successful attempts only: a step changes the
\* connections exactly when it settles one attempt with success, and it then
\* adds one connection with the listener to the client of the attempt; a
\* failed attempt, an 'error' event and a timer add none, and no listener is
\* ever taken off.
C18_ListenerIffSuccess ==
  /\ [](\A k \in 1..Len(clients) : \A c \in 1..Len(clients[k].conns) :
          /\ clients[k].conns[c].listener
          /\ clients[k].conns[c].reconnect <=> c > 1)
  /\ [][/\ \A k \in 1..Len(clients) :
             /\ Len(clients') >= k
             /\ IF AttemptSucceeds(k)
                THEN /\ Len(clients'[k].conns) = Len(clients[k].conns) + 1
                     /\ clients'[k].conns[Len(clients'[k].conns)].listener
                     /\ SubSeq(clients'[k].conns, 1, Len(clients[k].conns)) = clients[k].conns
                ELSE clients'[k].conns = clients[k].conns
        /\ \A k \in (Len(clients) + 1)..Len(clients') : clients'[k].conns = <<>>
        /\ (\/ history'.failures # history.failures
            \/ \E i \in Invocations :
                 calls[i].pc = "client.connect" /\ calls'[i].caught # <<>>)
           => TotalConns(clients') = TotalConns(clients)]_vars

C18_Witness ==
  /\ history.failures >= 1
  /\ Len(clients) = 2
  /\ clients[1].conns = <<>>
  /\ Len(clients[2].conns) = 2
  /\ Cardinality(Listeners) = 2

\* How often op was called in the top-level call, its recursion counted in.
RECURSIVE ChainCount(_, _)
ChainCount(cs, op) ==
  IF cs = <<>> THEN 0 ELSE Count(Head(cs).trace, op) + ChainCount(Tail(cs), op)

\* C19: an invocation that re-invoked connect after createDatabase does
\* nothing more: this.connect is the last event of its history and it
\* returns only when the recursive invocation has returned; so in a
\* top-level call, its recursion counted in, createExtensions,
\* pushDevSchema, resolveInitializing and migrate are each called at most
\* once, and never both rejectInitializing and resolveInitializing.
C19_RecursionOwnsCompletion ==
  /\ \A i \in Invocations :
       LET tr == calls[i].trace IN
       Has(tr, "this.connect") =>
         /\ tr[Len(tr)] = "this.connect"
         /\ Count(tr, "this.connect") = 1
         /\ calls[i].pc \in {"this.connect", "returned", "threw"}
         /\ ChildOf(calls, i) = i + 1
         /\ calls[i].pc = "returned" => calls[i + 1].pc = "returned"
         /\ calls[i].pc = "threw" => calls[i + 1].pc = "threw"
  /\ \A i \in Invocations : calls[i].parent = i - 1
  /\ \A op \in {"createExtensions", "pushDevSchema", "resolveInitializing", "migrate"} :
       ChainCount(calls, op) <= 1
  /\ ChainCount(calls, "rejectInitializing") <= 1
  /\ ChainCount(calls, "rejectInitializing") + ChainCount(calls, "resolveInitializing") <= 1

C19_Witness ==
  /\ Len(calls) = 2
  /\ calls[1].pc = "returned"
  /\ calls[1].trace[Len(calls[1].trace)] = "this.connect"
  /\ Has(calls[2].trace, "createExtensions.ok")
  /\ Has(calls[2].trace, "resolveInitializing")
  /\ calls[2].pc = "returned"

\* The connection objects of client k that carry the listener.
ListenersOf(k) == Cardinality({c \in 1..Len(clients[k].conns) : clients[k].conns[c].listener})

\* The reconnect chains of client k in flight: an attempt or a timer pending.
ChainsOf(k) == clients[k].pending + Len(clients[k].timers)

====
